---- MODULE Spec2Model ----
(***************************************************************************)
(* SqliteUrlDatabase (src/database/sqlite.rs): the canonical table `urls`, *)
(* the alias table `aliases`, the view `all_short_codes`, the table        *)
(* `bloom_snapshots`, and the trait methods that issue one SQL statement   *)
(* each (insert_url issues two: conditional insert, then fallback read).   *)
(* Every SQL statement is one atomic step of the store; callers interleave *)
(* between statements.                                                     *)
(***************************************************************************)
EXTENDS Integers, Sequences, FiniteSets, TLC

\* ---------------------------------------------------------------- bounds
NCallers == 3
MaxClock == 1
MaxOffset == 2
MaxLimit == 2
MaxBurned == 1

\* ---------------------------------------------------------------- inputs
Callers == 1..NCallers
Codes == {"aaa111", "bbb222", "ccc333"}
Urls == {"https://example.com", "https://example.org"}
Names == {"filterA", "filterB"}
Payloads == {<< >>, <<1, 2>>, <<3, 4>>}
\* ids a caller may pass to insert_alias: every id the table can hold, and one more
Ids == 1..(Cardinality(Urls) + MaxBurned)

VARIABLES
    urls,             \* table urls: rows [id, code, url, url_hash]
    aliases,          \* table aliases: rows [alias, target_id]
    bloom_snapshots,  \* table bloom_snapshots: rows [name, data, updated_at]
    now,              \* the store's clock (CURRENT_TIMESTAMP)
    migrated,         \* whether migrate() has created the tables and the view
    autoincrement,    \* whether the migrations declare urls.id AUTOINCREMENT
    union_all,        \* whether the migrations build the view with UNION ALL (or UNION)
    urls_seq,         \* the largest id ever allocated to urls (sqlite_sequence), kept
                      \* by the store when urls.id is AUTOINCREMENT
    pc,               \* per caller: "idle", "fallback" (insert_url between its statements),
                      \* "returning" (the last statement of the call has run, the caller
                      \* has not been polled since), "done" (the call has returned),
                      \* "abandoned" (the caller dropped its call before it returned)
    req,              \* per caller: the arguments of the call in flight
    ret,              \* per caller: the result of its last call, fixed when the call's last
                      \* statement ran and handed to the caller when pc turns "done"
    created_log,      \* history: every record handed out with created = true
    last_saved        \* history: per name, << >> or <<payload of the last save applied>>

vars == <<urls, aliases, bloom_snapshots, now, last_saved, migrated, autoincrement, union_all, urls_seq, pc, req, ret, created_log>>

\* ------------------------------------------------------------ fingerprint
\* SHA-256 of the string's bytes (fixed vectors for the strings of the model)
sha256_bytes(s) ==
    CASE s = "https://example.com" ->
           <<16, 6, 128, 173, 84, 108, 230, 165, 119, 244, 47, 82, 223, 51, 180, 207,
             220, 167, 86, 133, 158, 102, 75, 141, 125, 227, 41, 177, 80, 208, 156, 233>>
      [] s = "https://example.org" ->
           <<80, 215, 169, 5, 227, 4, 107, 136, 99, 131, 98, 204, 52, 163, 26, 26,
             229, 52, 118, 108, 165, 94, 58, 163, 151, 149, 30, 254, 101, 59, 6, 43>>
      [] s = "aaa111" ->
           <<79, 86, 254, 101, 200, 189, 82, 150, 202, 106, 95, 149, 250, 160, 214, 95,
             181, 75, 26, 216, 168, 122, 31, 129, 108, 114, 6, 128, 59, 207, 249, 56>>
      [] s = "bbb222" ->
           <<41, 184, 1, 186, 207, 55, 82, 211, 207, 48, 239, 251, 13, 231, 174, 161,
             200, 54, 238, 245, 210, 91, 39, 134, 139, 183, 108, 213, 74, 74, 109, 33>>
      [] s = "ccc333" ->
           <<78, 67, 231, 8, 165, 153, 231, 5, 179, 19, 111, 93, 99, 15, 237, 217,
             247, 52, 237, 139, 208, 37, 146, 194, 71, 41, 60, 75, 67, 159, 90, 44>>

\* ------------------------------------------------------------------ store
\* the id the next row of urls gets. INTEGER PRIMARY KEY: one more than the largest id
\* in the table; with AUTOINCREMENT: one more than the largest id ever allocated
NextId == IF autoincrement THEN urls_seq + 1
          ELSE IF urls = {} THEN 1
          ELSE (CHOOSE m \in {r.id : r \in urls} : \A r \in urls : r.id <= m) + 1

\* sqlite_sequence after a statement that allocated an id and ran to its end (it inserted
\* the row, or did nothing on a conflict); a statement that failed leaves it as it was
Burned == IF autoincrement THEN NextId ELSE urls_seq

\* rows the ON CONFLICT(url_hash) target matches
HashConflict(hash) == {r \in urls : r.url_hash = hash}

\* rows that violate UNIQUE(urls.code)
CodeConflict(code) == {r \in urls : r.code = code}

\* rows that violate UNIQUE(aliases.alias)
AliasConflict(alias_code) == {a \in aliases : a.alias = alias_code}

\* REFERENCES urls(id), enforced because the pool sets foreign_keys(true)
ForeignKeyOk(code_id) == \E r \in urls : r.id = code_id

\* view all_short_codes: the codes of urls, and the aliases joined to their target's
\* url. Built with UNION ALL it has one row per row of either table (a code stored in
\* both has two rows); built with UNION, rows with the same code and url are one row.
all_short_codes ==
    {[code |-> r.code, url |-> r.url, from |-> IF union_all THEN "urls" ELSE "view"] :
       r \in urls}
    \cup {[code |-> a.alias, url |-> r.url, from |-> IF union_all THEN "aliases" ELSE "view"] :
            <<a, r>> \in {p \in aliases \X urls : p[1].target_id = p[2].id}}

\* ---------------------------------------------------------------- results
NoReq == [op |-> "none", arg |-> << >>]
NoRet == [op |-> "none", arg |-> << >>, res |-> "none", val |-> << >>]
Req(op, arg) == [op |-> op, arg |-> arg]
Ret(op, arg, res, val) == [op |-> op, arg |-> arg, res |-> res, val |-> val]

\* Ok((UpsertResult { id, created }, Urls { id, code }))
UpsertOk(id, created, code) ==
    [upsert_result |-> [id |-> id, created |-> created],
     urls |-> [id |-> id, code |-> code]]

\* the call's last statement has run: its result is fixed, and reaches the caller when
\* the call is next polled
Returns(c, r) ==
    /\ pc' = [pc EXCEPT ![c] = "returning"]
    /\ req' = [req EXCEPT ![c] = NoReq]
    /\ ret' = [ret EXCEPT ![c] = r]

\* a caller may issue a call when it has none in flight
CanCall(c) == pc[c] \in {"idle", "done"}

Init ==
    /\ urls = {}
    /\ aliases = {}
    /\ bloom_snapshots = {}
    /\ now = 0
    /\ pc = [c \in Callers |-> "idle"]
    /\ req = [c \in Callers |-> NoReq]
    /\ ret = [c \in Callers |-> NoRet]
    /\ created_log = {}
    /\ migrated = FALSE
    /\ autoincrement = FALSE
    /\ union_all = TRUE
    /\ urls_seq = 0
    /\ last_saved = [name \in Names |-> << >>]

\* migrate(): the migrations create the tables urls, aliases, bloom_snapshots and the
\* view all_short_codes; running them again changes nothing
Migrate ==
    /\ migrated' = TRUE
    /\ IF migrated THEN UNCHANGED <<autoincrement, union_all>>
       ELSE autoincrement' \in BOOLEAN /\ union_all' \in BOOLEAN
    /\ UNCHANGED <<urls, urls_seq, aliases, bloom_snapshots, now, last_saved, pc, req, ret,
                   created_log>>

\* the caller is polled after the last statement of its call ran: the call returns
Deliver(c) ==
    /\ pc[c] = "returning"
    /\ pc' = [pc EXCEPT ![c] = "done"]
    /\ UNCHANGED <<urls, urls_seq, aliases, bloom_snapshots, now, last_saved, migrated,
                   autoincrement, union_all, req, ret, created_log>>

\* a statement issued before migrate() fails with "no such table", which every handler
\* maps to DatabaseError::QueryError
NoSuchTable(c, op, arg) ==
    /\ CanCall(c)
    /\ UNCHANGED <<urls, aliases, bloom_snapshots, now, last_saved, migrated, autoincrement, union_all, urls_seq, created_log>>
    /\ Returns(c, Ret(op, arg, "QueryError", << >>))

\* ------------------------------------------------------------- insert_url
\* Variants of the conditional insert, each one slip away from the statement of
\* insert_url; the properties below are checked to tell them from it.
\* INSERT OR IGNORE: a taken code is skipped like a taken digest
InsertUrlStatement_OrIgnore(c, code, url) ==
    IF ~migrated THEN NoSuchTable(c, "insert_url", <<code, url>>) ELSE
    LET hash == sha256_bytes(url) IN
    /\ CanCall(c)
    /\ NextId \in Ids
    /\ UNCHANGED <<aliases, bloom_snapshots, now, last_saved, migrated, autoincrement, union_all>>
    /\ urls_seq' = IF HashConflict(hash) # {} \/ CodeConflict(code) = {} THEN Burned ELSE urls_seq
    /\ IF HashConflict(hash) # {} \/ CodeConflict(code) # {}
       THEN /\ pc' = [pc EXCEPT ![c] = "fallback"]
            /\ req' = [req EXCEPT ![c] = Req("insert_url", <<code, url>>)]
            /\ UNCHANGED <<urls, ret, created_log>>
       ELSE LET id == NextId IN
            /\ urls' = urls \cup {[id |-> id, code |-> code, url |-> url, url_hash |-> hash]}
            /\ Returns(c, Ret("insert_url", <<code, url>>, "Ok", UpsertOk(id, TRUE, code)))
            /\ created_log' = created_log \cup {[url |-> url, id |-> id, code |-> code]}

\* ... ON CONFLICT(url_hash) DO UPDATE SET url = excluded.url RETURNING id: the
\* statement returns the id of the row in place, and the caller reports created
InsertUrlStatement_DoUpdate(c, code, url) ==
    IF ~migrated THEN NoSuchTable(c, "insert_url", <<code, url>>) ELSE
    LET hash == sha256_bytes(url) IN
    /\ CanCall(c)
    /\ NextId \in Ids
    /\ UNCHANGED <<aliases, bloom_snapshots, now, last_saved, migrated, autoincrement, union_all>>
    /\ urls_seq' = IF HashConflict(hash) # {} \/ CodeConflict(code) = {} THEN Burned ELSE urls_seq
    /\ IF HashConflict(hash) # {}
       THEN /\ \E r \in HashConflict(hash) :
                 /\ Returns(c, Ret("insert_url", <<code, url>>, "Ok", UpsertOk(r.id, TRUE, code)))
                 /\ created_log' = created_log \cup {[url |-> url, id |-> r.id, code |-> code]}
            /\ UNCHANGED urls
       ELSE IF CodeConflict(code) # {}
       THEN /\ Returns(c, Ret("insert_url", <<code, url>>, "Duplicate", << >>))
            /\ UNCHANGED <<urls, created_log>>
       ELSE LET id == NextId IN
            /\ urls' = urls \cup {[id |-> id, code |-> code, url |-> url, url_hash |-> hash]}
            /\ Returns(c, Ret("insert_url", <<code, url>>, "Ok", UpsertOk(id, TRUE, code)))
            /\ created_log' = created_log \cup {[url |-> url, id |-> id, code |-> code]}

\* the digest is taken of the code instead of the url
InsertUrlStatement_HashOfCode(c, code, url) ==
    IF ~migrated THEN NoSuchTable(c, "insert_url", <<code, url>>) ELSE
    LET hash == sha256_bytes(code) IN
    /\ CanCall(c)
    /\ NextId \in Ids
    /\ UNCHANGED <<aliases, bloom_snapshots, now, last_saved, migrated, autoincrement, union_all>>
    /\ urls_seq' = IF HashConflict(hash) # {} \/ CodeConflict(code) = {} THEN Burned ELSE urls_seq
    /\ IF HashConflict(hash) # {}
       THEN /\ pc' = [pc EXCEPT ![c] = "fallback"]
            /\ req' = [req EXCEPT ![c] = Req("insert_url", <<code, url>>)]
            /\ UNCHANGED <<urls, ret, created_log>>
       ELSE IF CodeConflict(code) # {}
       THEN /\ Returns(c, Ret("insert_url", <<code, url>>, "Duplicate", << >>))
            /\ UNCHANGED <<urls, created_log>>
       ELSE LET id == NextId IN
            /\ urls' = urls \cup {[id |-> id, code |-> code, url |-> url, url_hash |-> hash]}
            /\ Returns(c, Ret("insert_url", <<code, url>>, "Ok", UpsertOk(id, TRUE, code)))
            /\ created_log' = created_log \cup {[url |-> url, id |-> id, code |-> code]}

\* the error text is matched against another constraint's name: QueryError
InsertUrlStatement_QueryError(c, code, url) ==
    IF ~migrated THEN NoSuchTable(c, "insert_url", <<code, url>>) ELSE
    LET hash == sha256_bytes(url) IN
    /\ CanCall(c)
    /\ NextId \in Ids
    /\ UNCHANGED <<aliases, bloom_snapshots, now, last_saved, migrated, autoincrement, union_all>>
    /\ urls_seq' = IF HashConflict(hash) # {} \/ CodeConflict(code) = {} THEN Burned ELSE urls_seq
    /\ IF HashConflict(hash) # {}
       THEN /\ pc' = [pc EXCEPT ![c] = "fallback"]
            /\ req' = [req EXCEPT ![c] = Req("insert_url", <<code, url>>)]
            /\ UNCHANGED <<urls, ret, created_log>>
       ELSE IF CodeConflict(code) # {}
       THEN /\ Returns(c, Ret("insert_url", <<code, url>>, "QueryError", << >>))
            /\ UNCHANGED <<urls, created_log>>
       ELSE LET id == NextId IN
            /\ urls' = urls \cup {[id |-> id, code |-> code, url |-> url, url_hash |-> hash]}
            /\ Returns(c, Ret("insert_url", <<code, url>>, "Ok", UpsertOk(id, TRUE, code)))
            /\ created_log' = created_log \cup {[url |-> url, id |-> id, code |-> code]}

\* no conflict target: UNIQUE(code) is checked before UNIQUE(url_hash)
InsertUrlStatement_CodeFirst(c, code, url) ==
    IF ~migrated THEN NoSuchTable(c, "insert_url", <<code, url>>) ELSE
    LET hash == sha256_bytes(url) IN
    /\ CanCall(c)
    /\ NextId \in Ids
    /\ UNCHANGED <<aliases, bloom_snapshots, now, last_saved, migrated, autoincrement, union_all>>
    /\ urls_seq' = IF HashConflict(hash) # {} \/ CodeConflict(code) = {} THEN Burned ELSE urls_seq
    /\ IF CodeConflict(code) # {}
       THEN /\ Returns(c, Ret("insert_url", <<code, url>>, "Duplicate", << >>))
            /\ UNCHANGED <<urls, created_log>>
       ELSE IF HashConflict(hash) # {}
       THEN /\ pc' = [pc EXCEPT ![c] = "fallback"]
            /\ req' = [req EXCEPT ![c] = Req("insert_url", <<code, url>>)]
            /\ UNCHANGED <<urls, ret, created_log>>
       ELSE LET id == NextId IN
            /\ urls' = urls \cup {[id |-> id, code |-> code, url |-> url, url_hash |-> hash]}
            /\ Returns(c, Ret("insert_url", <<code, url>>, "Ok", UpsertOk(id, TRUE, code)))
            /\ created_log' = created_log \cup {[url |-> url, id |-> id, code |-> code]}

\* INSERT INTO urls(code, url, url_hash) ... ON CONFLICT(url_hash) DO NOTHING RETURNING id
\* The conflict target is checked first: a row with this url_hash makes the statement
\* insert nothing and return no row, whatever the code. Otherwise UNIQUE(code) applies.
InsertUrlStatement(c, code, url) ==
    IF ~migrated THEN NoSuchTable(c, "insert_url", <<code, url>>) ELSE
    LET hash == sha256_bytes(url) IN
    /\ CanCall(c)
    /\ NextId \in Ids
    /\ UNCHANGED <<aliases, bloom_snapshots, now, last_saved, migrated, autoincrement, union_all>>
    /\ urls_seq' = IF HashConflict(hash) # {} \/ CodeConflict(code) = {} THEN Burned ELSE urls_seq
    /\ IF HashConflict(hash) # {}
       THEN \* inserted = None: go on to the fallback read
            /\ pc' = [pc EXCEPT ![c] = "fallback"]
            /\ req' = [req EXCEPT ![c] = Req("insert_url", <<code, url>>)]
            /\ UNCHANGED <<urls, ret, created_log>>
       ELSE IF CodeConflict(code) # {}
       THEN \* "UNIQUE constraint failed: urls.code"
            /\ Returns(c, Ret("insert_url", <<code, url>>, "Duplicate", << >>))
            /\ UNCHANGED <<urls, created_log>>
       ELSE LET id == NextId IN
            /\ urls' = urls \cup {[id |-> id, code |-> code, url |-> url, url_hash |-> hash]}
            /\ Returns(c, Ret("insert_url", <<code, url>>, "Ok", UpsertOk(id, TRUE, code)))
            /\ created_log' = created_log \cup {[url |-> url, id |-> id, code |-> code]}

\* variant: the fallback read selects by the caller's code instead of the digest
InsertUrlFallback_ByCode(c) ==
    LET rows == CodeConflict(req[c].arg[1]) IN
    /\ pc[c] = "fallback"
    /\ UNCHANGED <<urls, aliases, bloom_snapshots, now, last_saved, migrated, autoincrement, union_all, urls_seq, created_log>>
    /\ IF rows = {}
       THEN Returns(c, Ret("insert_url", req[c].arg, "QueryError", << >>))
       ELSE \E existing_urls \in rows :
              Returns(c, Ret("insert_url", req[c].arg, "Ok",
                             UpsertOk(existing_urls.id, FALSE, existing_urls.code)))

\* the fallback builds the record from the caller's code, as the created path does
InsertUrlFallback_CallerCode(c) ==
    LET hash == sha256_bytes(req[c].arg[2])
        rows == HashConflict(hash) IN
    /\ pc[c] = "fallback"
    /\ UNCHANGED <<urls, aliases, bloom_snapshots, now, last_saved, migrated, autoincrement, union_all, urls_seq, created_log>>
    /\ IF rows = {}
       THEN Returns(c, Ret("insert_url", req[c].arg, "QueryError", << >>))
       ELSE \E existing_urls \in rows :
              Returns(c, Ret("insert_url", req[c].arg, "Ok",
                             UpsertOk(existing_urls.id, FALSE, req[c].arg[1])))

\* SELECT id, code FROM urls WHERE url_hash = ?1 LIMIT 1, fetch_one
InsertUrlFallback(c) ==
    LET hash == sha256_bytes(req[c].arg[2])
        rows == HashConflict(hash) IN
    /\ pc[c] = "fallback"
    /\ UNCHANGED <<urls, aliases, bloom_snapshots, now, last_saved, migrated, autoincrement, union_all, urls_seq, created_log>>
    /\ IF rows = {}
       THEN Returns(c, Ret("insert_url", req[c].arg, "QueryError", << >>))
       ELSE \E existing_urls \in rows :
              Returns(c, Ret("insert_url", req[c].arg, "Ok",
                             UpsertOk(existing_urls.id, FALSE, existing_urls.code)))

\* -------------------------------------------------- insert_url, abandoned
\* variant: the row is written in two steps, and the call is dropped before the digest
\* is filled in
InsertUrlAbandoned_TwoSteps(c, code, url) ==
    LET hash == sha256_bytes(url) IN
    /\ CanCall(c)
    /\ pc' = [pc EXCEPT ![c] = "abandoned"]
    /\ req' = [req EXCEPT ![c] = Req("insert_url", <<code, url>>)]
    /\ UNCHANGED <<aliases, bloom_snapshots, now, last_saved, migrated, autoincrement, union_all, ret,
                   created_log>>
    /\ \/ UNCHANGED <<urls, urls_seq>>
       \/ /\ migrated /\ HashConflict(hash) # {} /\ NextId \in Ids
          /\ urls_seq' = Burned
          /\ UNCHANGED urls
       \/ /\ migrated /\ HashConflict(hash) = {} /\ CodeConflict(code) = {} /\ NextId \in Ids
          /\ urls_seq' = Burned
          /\ urls' = urls \cup {[id |-> NextId, code |-> code, url |-> url, url_hash |-> << >>]}

\* The caller drops the call while the conditional insert is awaited: the statement has
\* not run or has failed, or has run as a whole (doing nothing on a conflict, or
\* inserting the row); nothing is
\* returned to the caller and the fallback read never runs.
InsertUrlAbandoned(c, code, url) ==
    LET hash == sha256_bytes(url) IN
    /\ CanCall(c)
    /\ pc' = [pc EXCEPT ![c] = "abandoned"]
    /\ req' = [req EXCEPT ![c] = Req("insert_url", <<code, url>>)]
    /\ UNCHANGED <<aliases, bloom_snapshots, now, last_saved, migrated, autoincrement, union_all, ret,
                   created_log>>
    /\ \/ UNCHANGED <<urls, urls_seq>>
       \/ /\ migrated /\ HashConflict(hash) # {} /\ NextId \in Ids
          /\ urls_seq' = Burned
          /\ UNCHANGED urls
       \/ /\ migrated /\ HashConflict(hash) = {} /\ CodeConflict(code) = {} /\ NextId \in Ids
          /\ urls_seq' = Burned
          /\ urls' = urls \cup {[id |-> NextId, code |-> code, url |-> url, url_hash |-> hash]}

\* The caller drops the call between the conditional insert and the end of the
\* fallback read: the read changes nothing, and nothing is returned.
InsertUrlFallbackAbandoned(c) ==
    /\ pc[c] = "fallback"
    /\ pc' = [pc EXCEPT ![c] = "abandoned"]
    /\ UNCHANGED <<urls, aliases, bloom_snapshots, now, last_saved, migrated, autoincrement, union_all, urls_seq, req, ret, created_log>>

\* ----------------------------------------------------------- get_id_by_url
\* variant: the url itself is bound where its digest is expected, no row ever matches
GetIdByUrl_UnhashedKey(c, url) ==
    IF ~migrated THEN NoSuchTable(c, "get_id_by_url", <<url>>) ELSE
    LET rows == HashConflict(url) IN
    /\ CanCall(c)
    /\ UNCHANGED <<urls, aliases, bloom_snapshots, now, last_saved, migrated, autoincrement, union_all, urls_seq, created_log>>
    /\ IF rows = {}
       THEN Returns(c, Ret("get_id_by_url", <<url>>, "NotFound", << >>))
       ELSE \E record \in rows :
              Returns(c, Ret("get_id_by_url", <<url>>, "Ok",
                             [id |-> record.id, code |-> record.code]))

\* SELECT id, code FROM urls WHERE url_hash = ? LIMIT 1, fetch_optional
GetIdByUrl(c, url) ==
    IF ~migrated THEN NoSuchTable(c, "get_id_by_url", <<url>>) ELSE
    LET rows == HashConflict(sha256_bytes(url)) IN
    /\ CanCall(c)
    /\ UNCHANGED <<urls, aliases, bloom_snapshots, now, last_saved, migrated, autoincrement, union_all, urls_seq, created_log>>
    /\ IF rows = {}
       THEN Returns(c, Ret("get_id_by_url", <<url>>, "NotFound", << >>))
       ELSE \E record \in rows :
              Returns(c, Ret("get_id_by_url", <<url>>, "Ok",
                             [id |-> record.id, code |-> record.code]))

\* ----------------------------------------------------------------- get_url
\* the urls a SELECT url FROM all_short_codes WHERE code = ? LIMIT 1 may return
GetUrlRows(id) ==
    {v.url : v \in {w \in all_short_codes : w.code = id}}

\* fetch_one in place of fetch_optional: no row is an sqlx error, mapped to QueryError
GetUrl_FetchOne(c, id) ==
    IF ~migrated THEN NoSuchTable(c, "get_url", <<id>>) ELSE
    /\ CanCall(c)
    /\ UNCHANGED <<urls, aliases, bloom_snapshots, now, last_saved, migrated, autoincrement, union_all, urls_seq, created_log>>
    /\ IF GetUrlRows(id) = {}
       THEN Returns(c, Ret("get_url", <<id>>, "QueryError", << >>))
       ELSE \E record \in GetUrlRows(id) :
              Returns(c, Ret("get_url", <<id>>, "Ok", record))

GetUrl(c, id) ==
    IF ~migrated THEN NoSuchTable(c, "get_url", <<id>>) ELSE
    /\ CanCall(c)
    /\ UNCHANGED <<urls, aliases, bloom_snapshots, now, last_saved, migrated, autoincrement, union_all, urls_seq, created_log>>
    /\ IF GetUrlRows(id) = {}
       THEN Returns(c, Ret("get_url", <<id>>, "NotFound", << >>))
       ELSE \E record \in GetUrlRows(id) :
              Returns(c, Ret("get_url", <<id>>, "Ok", record))

\* ------------------------------------------------------------ insert_alias
\* INSERT OR REPLACE INTO aliases: an alias in use is given the new target
InsertAlias_Replace(c, alias_code, code_id) ==
    IF ~migrated THEN NoSuchTable(c, "insert_alias", <<alias_code, code_id>>) ELSE
    /\ CanCall(c)
    /\ UNCHANGED <<urls, bloom_snapshots, now, last_saved, migrated, autoincrement, union_all, urls_seq, created_log>>
    /\ IF ~ForeignKeyOk(code_id)
       THEN /\ Returns(c, Ret("insert_alias", <<alias_code, code_id>>, "QueryError", << >>))
            /\ UNCHANGED aliases
       ELSE /\ aliases' = (aliases \ AliasConflict(alias_code))
                           \cup {[alias |-> alias_code, target_id |-> code_id]}
            /\ Returns(c, Ret("insert_alias", <<alias_code, code_id>>, "Ok", << >>))

\* the pool is opened without foreign_keys(true): the target id is not looked up
InsertAlias_NoForeignKey(c, alias_code, code_id) ==
    IF ~migrated THEN NoSuchTable(c, "insert_alias", <<alias_code, code_id>>) ELSE
    /\ CanCall(c)
    /\ UNCHANGED <<urls, bloom_snapshots, now, last_saved, migrated, autoincrement, union_all, urls_seq, created_log>>
    /\ IF AliasConflict(alias_code) # {}
       THEN /\ Returns(c, Ret("insert_alias", <<alias_code, code_id>>, "Duplicate", << >>))
            /\ UNCHANGED aliases
       ELSE /\ aliases' = aliases \cup {[alias |-> alias_code, target_id |-> code_id]}
            /\ Returns(c, Ret("insert_alias", <<alias_code, code_id>>, "Ok", << >>))

\* INSERT INTO aliases (alias, target_id) VALUES (?, ?)
\* UNIQUE(alias) is checked when the row is written, the foreign key at the end of
\* the statement: an alias in use fails with Duplicate whatever the target is.
InsertAlias(c, alias_code, code_id) ==
    IF ~migrated THEN NoSuchTable(c, "insert_alias", <<alias_code, code_id>>) ELSE
    /\ CanCall(c)
    /\ UNCHANGED <<urls, bloom_snapshots, now, last_saved, migrated, autoincrement, union_all, urls_seq, created_log>>
    /\ IF AliasConflict(alias_code) # {}
       THEN /\ Returns(c, Ret("insert_alias", <<alias_code, code_id>>, "Duplicate", << >>))
            /\ UNCHANGED aliases
       ELSE IF ~ForeignKeyOk(code_id)
       THEN /\ Returns(c, Ret("insert_alias", <<alias_code, code_id>>, "QueryError", << >>))
            /\ UNCHANGED aliases
       ELSE /\ aliases' = aliases \cup {[alias |-> alias_code, target_id |-> code_id]}
            /\ Returns(c, Ret("insert_alias", <<alias_code, code_id>>, "Ok", << >>))

\* ------------------------------------------------------ load_bloom_snapshot
\* variant: a missing row is turned into an empty payload (unwrap_or_default)
LoadBloomSnapshot_UnwrapOrDefault(c, name) ==
    IF ~migrated THEN NoSuchTable(c, "load_bloom_snapshot", <<name>>) ELSE
    LET rows == {s \in bloom_snapshots : s.name = name} IN
    /\ CanCall(c)
    /\ UNCHANGED <<urls, aliases, bloom_snapshots, now, last_saved, migrated, autoincrement, union_all, urls_seq, created_log>>
    /\ IF rows = {}
       THEN Returns(c, Ret("load_bloom_snapshot", <<name>>, "Ok", [some |-> TRUE, data |-> << >>]))
       ELSE \E s \in rows :
              Returns(c, Ret("load_bloom_snapshot", <<name>>, "Ok", [some |-> TRUE, data |-> s.data]))

\* SELECT data FROM bloom_snapshots WHERE name = ? LIMIT 1, fetch_optional
LoadBloomSnapshot(c, name) ==
    IF ~migrated THEN NoSuchTable(c, "load_bloom_snapshot", <<name>>) ELSE
    LET rows == {s \in bloom_snapshots : s.name = name} IN
    /\ CanCall(c)
    /\ UNCHANGED <<urls, aliases, bloom_snapshots, now, last_saved, migrated, autoincrement, union_all, urls_seq, created_log>>
    /\ IF rows = {}
       THEN Returns(c, Ret("load_bloom_snapshot", <<name>>, "Ok", [some |-> FALSE, data |-> << >>]))
       ELSE \E s \in rows :
              Returns(c, Ret("load_bloom_snapshot", <<name>>, "Ok", [some |-> TRUE, data |-> s.data]))

\* ------------------------------------------------------ save_bloom_snapshot
\* variant: ON CONFLICT(name) DO NOTHING, the first payload saved under a name stays
SaveBloomSnapshot_DoNothing(c, name, data) ==
    IF ~migrated THEN NoSuchTable(c, "save_bloom_snapshot", <<name, data>>) ELSE
    /\ CanCall(c)
    /\ UNCHANGED <<urls, aliases, migrated, autoincrement, union_all, urls_seq, created_log>>
    /\ last_saved' = [last_saved EXCEPT ![name] = <<data>>]
    /\ \E t \in now..MaxClock :
         /\ now' = t
         /\ bloom_snapshots' =
              IF \E s \in bloom_snapshots : s.name = name
              THEN bloom_snapshots
              ELSE bloom_snapshots \cup {[name |-> name, data |-> data, updated_at |-> t]}
    /\ Returns(c, Ret("save_bloom_snapshot", <<name, data>>, "Ok", << >>))

\* variant: DO UPDATE SET data = data || excluded.data, the new payload is appended
SaveBloomSnapshot_Merge(c, name, data) ==
    IF ~migrated THEN NoSuchTable(c, "save_bloom_snapshot", <<name, data>>) ELSE
    /\ CanCall(c)
    /\ UNCHANGED <<urls, aliases, migrated, autoincrement, union_all, urls_seq, created_log>>
    /\ last_saved' = [last_saved EXCEPT ![name] = <<data>>]
    /\ \E t \in now..MaxClock :
         /\ now' = t
         /\ bloom_snapshots' =
              {s \in bloom_snapshots : s.name # name}
              \cup IF \E s \in bloom_snapshots : s.name = name
                   THEN {[name |-> name, data |-> s.data \o data, updated_at |-> t] :
                           s \in {x \in bloom_snapshots : x.name = name}}
                   ELSE {[name |-> name, data |-> data, updated_at |-> t]}
    /\ Returns(c, Ret("save_bloom_snapshot", <<name, data>>, "Ok", << >>))

\* INSERT INTO bloom_snapshots ... ON CONFLICT(name) DO UPDATE SET data = excluded.data,
\* updated_at = CURRENT_TIMESTAMP. The clock may have advanced since the last statement.
SaveBloomSnapshot(c, name, data) ==
    IF ~migrated THEN NoSuchTable(c, "save_bloom_snapshot", <<name, data>>) ELSE
    /\ CanCall(c)
    /\ UNCHANGED <<urls, aliases, migrated, autoincrement, union_all, urls_seq, created_log>>
    /\ last_saved' = [last_saved EXCEPT ![name] = <<data>>]
    /\ \E t \in now..MaxClock :
         /\ now' = t
         /\ bloom_snapshots' =
              {s \in bloom_snapshots : s.name # name}
              \cup {[name |-> name, data |-> data, updated_at |-> t]}
    /\ Returns(c, Ret("save_bloom_snapshot", <<name, data>>, "Ok", << >>))

\* -------------------------------------------------------- list_short_codes
\* the orders in which a scan of all_short_codes may yield its rows (the statement has
\* no ORDER BY; for given data the scan yields every row of the view once)
RECURSIVE Orders(_)
Orders(rows) ==
    IF rows = {} THEN {<< >>}
    ELSE UNION {{<<first>> \o rest : rest \in Orders(rows \ {first})} : first \in rows}

ScanOrders == Orders(all_short_codes)

\* a u64 argument, kept as its top bit hi and its low 63 bits lo: the value is
\* hi * 2^63 + lo, and `as i64` turns it into lo - hi * 2^63, negative exactly when hi = 1
U64(hi, lo) == [hi |-> hi, lo |-> lo]

\* the arguments 0..max and 2^63
U64Inputs(max) == {U64(0, n) : n \in 0..max} \cup {U64(1, 0)}

\* LIMIT (limit as i64) OFFSET (offset as i64) over the scanned rows: a negative OFFSET
\* counts as 0 and a negative LIMIT as no limit
Window(rows, offset, limit) ==
    LET skip == IF offset.hi = 1 THEN 0 ELSE offset.lo
        rest == IF Len(rows) > skip THEN Len(rows) - skip ELSE 0
        n == IF limit.hi = 1 THEN rest
             ELSE IF limit.lo < rest THEN limit.lo ELSE rest
    IN [i \in 1..n |-> rows[skip + i]]

\* SELECT code FROM all_short_codes LIMIT ? OFFSET ?, fetch_all
ListShortCodes(c, offset, limit) ==
    IF ~migrated THEN NoSuchTable(c, "list_short_codes", <<offset, limit>>) ELSE
    /\ CanCall(c)
    /\ UNCHANGED <<urls, aliases, bloom_snapshots, now, last_saved, migrated, autoincrement, union_all, urls_seq, created_log>>
    /\ \E codes \in {Window([i \in DOMAIN order |-> order[i].code], offset, limit) :
                        order \in ScanOrders} :
         Returns(c, Ret("list_short_codes", <<offset, limit>>, "Ok", codes))

\* ------------------------------------------------------------------- Next
\* the calls on the canonical store, the alias index and the resolver
UrlOps(c) ==
    \/ \E code \in Codes, url \in Urls : InsertUrlStatement(c, code, url)
    \/ InsertUrlFallback(c)
    \/ \E url \in Urls : GetIdByUrl(c, url)
    \/ \E id \in Codes : GetUrl(c, id)
    \/ \E alias_code \in Codes, code_id \in Ids : InsertAlias(c, alias_code, code_id)

\* the calls on the bloom snapshot store
BloomOps(c, names, payloads) ==
    \/ \E name \in names : LoadBloomSnapshot(c, name)
    \/ \E name \in names, data \in payloads : SaveBloomSnapshot(c, name, data)

\* one client issuing calls one after another
Client == CHOOSE c \in Callers : \A d \in Callers : c <= d

Next == Migrate \/ UrlOps(Client) \/ Deliver(Client)

Spec == Init /\ [][Next]_vars

\* the same client, with snapshot calls (one name, one payload) between the others
NextAll ==
    Migrate \/ Deliver(Client) \/ UrlOps(Client) \/ BloomOps(Client, {"filterA"}, {<<1, 2>>})

SpecAll == Init /\ [][NextAll]_vars

\* the same client, storing records and aliases (of two of the codes) and listing
\* the codes in between
NextList ==
    \/ Migrate
    \/ Deliver(Client)
    \/ \E code \in Codes, url \in Urls : InsertUrlStatement(Client, code, url)
    \/ InsertUrlFallback(Client)
    \/ \E alias_code \in {"aaa111", "bbb222"}, code_id \in Ids :
         InsertAlias(Client, alias_code, code_id)
    \/ \E offset \in U64Inputs(MaxOffset), limit \in {U64(0, n) : n \in 0..MaxLimit} :
         ListShortCodes(Client, offset, limit)

SpecList == Init /\ [][NextList]_vars

\* startup runs migrate(); then NCallers callers, each issuing one call, interleaved
\* statement by statement
NextConc ==
    \/ Migrate
    \/ /\ migrated
       /\ \E c \in Callers :
            \/ pc[c] = "idle" /\ UrlOps(c)
            \/ InsertUrlFallback(c)
            \/ Deliver(c)

SpecConc == Init /\ [][NextConc]_vars

\* startup runs migrate(); then NCallers callers, each issuing one call of any kind
\* (insert_url, get_id_by_url, get_url, insert_alias, or a snapshot load or save),
\* interleaved statement by statement
NextMix ==
    \/ Migrate
    \/ /\ migrated
       /\ \E c \in Callers :
            \/ pc[c] = "idle" /\ (UrlOps(c) \/ BloomOps(c, {"filterA"}, {<<1, 2>>}))
            \/ InsertUrlFallback(c)
            \/ Deliver(c)

SpecMix == Init /\ [][NextMix]_vars

\* startup runs migrate(); then NCallers callers, each issuing one insert_url that it
\* may abandon at either await
NextAbandon ==
    \/ Migrate
    \/ /\ migrated
       /\ \E c \in Callers :
            \/ pc[c] = "idle"
               /\ \E code \in Codes, url \in Urls : InsertUrlStatement(c, code, url)
            \/ InsertUrlFallback(c)
            \/ pc[c] = "idle"
               /\ \E code \in Codes, url \in Urls : InsertUrlAbandoned(c, code, url)
            \/ InsertUrlFallbackAbandoned(c)
            \/ Deliver(c)

SpecAbandon == Init /\ [][NextAbandon]_vars

\* startup runs migrate(); then NCallers callers, each issuing one snapshot call,
\* interleaved statement by statement
NextBloom ==
    \/ Migrate
    \/ /\ migrated
       /\ \E c \in Callers :
            \/ pc[c] = "idle" /\ BloomOps(c, Names, Payloads)
            \/ Deliver(c)

SpecBloom == Init /\ [][NextBloom]_vars

\* ============================================================== properties
\* the last statement of a call of caller c runs in this step and fixes the result the
\* call returns (ret'[c])
CallAnswered(c) == pc[c] # "returning" /\ pc'[c] = "returning"

\* the result of c's call is fixed (it has returned, or returns when c is next polled)
Answered(c) == pc[c] \in {"returning", "done"}

\* caller c issues insert_url(code, url) in this step (its conditional insert runs)
UpsertIssued(c, code, url) ==
    /\ pc[c] # "fallback"
    /\ \/ pc'[c] = "fallback" /\ req'[c].arg = <<code, url>>
       \/ CallAnswered(c) /\ ret'[c].op = "insert_url" /\ ret'[c].arg = <<code, url>>

IsUpsert(r) == r.op = "insert_url"
IsUpsertOk(r) == r.op = "insert_url" /\ r.res = "Ok"
IsCreated(r) == IsUpsertOk(r) /\ r.val.upsert_result.created
IsExisting(r) == IsUpsertOk(r) /\ ~r.val.upsert_result.created

\* C1: on a migrated store, insert_url(code1, u) with u not stored and code1 unused
\* returns created with the record (id, code1); every later insert_url(code2, u) with
\* code2 # code1 returns not-created with the very record the first call returned
\* (same id, code = code1).
C1_CreatedThenExisting ==
    [][\A c \in Callers, url \in Urls, code1 \in Codes :
         /\ (/\ migrated
             /\ HashConflict(sha256_bytes(url)) = {}
             /\ CodeConflict(code1) = {}
             /\ UpsertIssued(c, code1, url))
            => /\ CallAnswered(c)
               /\ IsCreated(ret'[c])
               /\ ret'[c].val.urls.code = code1
               /\ ret'[c].val.urls.id = ret'[c].val.upsert_result.id
               /\ [url |-> url, id |-> ret'[c].val.urls.id, code |-> code1] \in created_log'
         /\ \A e \in created_log :
               (/\ e.url = url /\ e.code = code1
                /\ CallAnswered(c)
                /\ IsUpsert(ret'[c])
                /\ ret'[c].arg[2] = url
                /\ ret'[c].arg[1] # code1)
               => /\ IsExisting(ret'[c])
                  /\ ret'[c].val.urls = [id |-> e.id, code |-> code1]
                  /\ ret'[c].val.upsert_result.id = e.id
    ]_vars

\* C1 witness: the second call, with another code, has returned the first call's record
C1_Witness ==
    \E e \in created_log :
        /\ IsExisting(ret[Client])
        /\ ret[Client].arg[2] = e.url
        /\ ret[Client].arg[1] # e.code
        /\ ret[Client].val.urls = [id |-> e.id, code |-> e.code]

\* the callers whose insert_url of u has its result, Ok (returned or about to)
UpsertOkFor(u) == {c \in Callers : IsUpsertOk(ret[c]) /\ ret[c].arg[2] = u}

\* caller c has issued an insert_url of u (in flight or returned)
UpsertCallOf(c, u) ==
    \/ pc[c] = "fallback" /\ req[c].arg[2] = u
    \/ Answered(c) /\ IsUpsert(ret[c]) /\ ret[c].arg[2] = u

\* C2: among the callers whose concurrent insert_url of one url has returned or has its
\* result fixed, exactly
\* one was told created and all hold the same id; when every call issued is an
\* insert_url of the same url, no call fails.
C2_OneWinner ==
    \A u \in Urls :
        /\ UpsertOkFor(u) # {}
           => /\ Cardinality({c \in UpsertOkFor(u) : ret[c].val.upsert_result.created}) = 1
              /\ \A c, d \in UpsertOkFor(u) :
                    /\ ret[c].val.upsert_result.id = ret[d].val.upsert_result.id
                    /\ ret[c].val.urls.id = ret[d].val.urls.id
        /\ (\A c \in Callers : pc[c] # "idle" => UpsertCallOf(c, u))
           => \A c \in Callers : Answered(c) => IsUpsertOk(ret[c])

\* C2 witness: every caller has upserted the same url, each with a code of its own
\* (as many callers as there are codes), and all have returned
C2_Witness ==
    \E u \in Urls :
        /\ \A c \in Callers : pc[c] = "done" /\ IsUpsertOk(ret[c]) /\ ret[c].arg[2] = u
        /\ \A c, d \in Callers : c # d => ret[c].arg[1] # ret[d].arg[1]
        /\ \E c, d \in Callers : c # d /\ IsExisting(ret[c]) /\ IsExisting(ret[d])

\* C3: in every state reached by the callers' interleaved calls (insert_url,
\* insert_alias, get_url, get_id_by_url, snapshot load and save), no two rows of urls
\* have the same content digest (stored, or of their url) and no two rows have the same
\* code.
C3_CanonicalUnique ==
    \A r1, r2 \in urls :
        (\/ r1.url_hash = r2.url_hash
         \/ sha256_bytes(r1.url) = sha256_bytes(r2.url)
         \/ r1.code = r2.code)
        => r1 = r2

\* C3 witness: three calls overlap. One caller's insert_url created the record of a url
\* and has not returned yet; a second caller's insert_url of the same url with another
\* code found the digest stored and is between its two statements; meanwhile a third
\* caller created the record of the other url, so both urls have their row
C3_Witness ==
    \E c, d, e \in Callers :
        /\ pc[c] = "returning" /\ IsCreated(ret[c])
        /\ pc[d] = "fallback"
        /\ req[d].arg[2] = ret[c].arg[2] /\ req[d].arg[1] # ret[c].arg[1]
        /\ IsCreated(ret[e]) /\ ret[e].arg[2] # ret[c].arg[2]
        /\ Cardinality(urls) = Cardinality(Urls)

\* C4: insert_url(code, u) issued when no row has u's digest and a row holds code
\* returns Duplicate at once and leaves urls and aliases as they were.
C4_DuplicateCode ==
    [][\A c \in Callers, url \in Urls, code \in Codes :
         (/\ HashConflict(sha256_bytes(url)) = {}
          /\ CodeConflict(code) # {}
          /\ UpsertIssued(c, code, url))
         => /\ CallAnswered(c)
            /\ ret'[c] = Ret("insert_url", <<code, url>>, "Duplicate", << >>)
            /\ urls' = urls
            /\ aliases' = aliases
            /\ created_log' = created_log
    ]_vars

\* C4 witness: a call was refused with Duplicate; its url has no record and its code
\* belongs to the record of another url
C4_Witness ==
    /\ IsUpsert(ret[Client])
    /\ ret[Client].res = "Duplicate"
    /\ HashConflict(sha256_bytes(ret[Client].arg[2])) = {}
    /\ \E r \in urls : r.code = ret[Client].arg[1] /\ r.url # ret[Client].arg[2]

\* C5: insert_url(code, u) issued when a row has u's digest goes to the fallback read
\* whatever the code, and the fallback read returns not-created with that row's id and
\* code: never Duplicate, never another error.
C5_ExistingWhateverCode ==
    [][\A c \in Callers :
         /\ \A url \in Urls, code \in Codes :
               (HashConflict(sha256_bytes(url)) # {} /\ UpsertIssued(c, code, url))
               => pc'[c] = "fallback" /\ urls' = urls
         /\ (/\ CallAnswered(c)
             /\ IsUpsert(ret'[c])
             /\ HashConflict(sha256_bytes(ret'[c].arg[2])) # {})
            => /\ pc[c] = "fallback"
               /\ IsExisting(ret'[c])
               /\ \E r \in urls :
                     /\ r.url = ret'[c].arg[2]
                     /\ ret'[c].val.urls = [id |-> r.id, code |-> r.code]
                     /\ ret'[c].val.upsert_result.id = r.id
    ]_vars

\* C5 witness: the call that returned the existing record passed a code that is the
\* code of another url's record
C5_Witness ==
    /\ IsExisting(ret[Client])
    /\ \E r \in urls : r.code = ret[Client].arg[1] /\ r.url # ret[Client].arg[2]

\* C6 (as claimed): once insert_url(code, u) has returned created, every get_url(code)
\* returns Ok(u).
C6_CreatedCodeResolves ==
    [][\A c \in Callers, e \in created_log :
         (CallAnswered(c) /\ ret'[c].op = "get_url" /\ ret'[c].arg = <<e.code>>)
         => ret'[c] = Ret("get_url", <<e.code>>, "Ok", e.url)
    ]_vars

\* C7 (as claimed): for an alias a stored for record i, get_url(a) returns Ok with the
\* one url that get_url of i's canonical code returns.
C7_AliasResolvesLikeCanonical ==
    [][\A c \in Callers, a \in aliases, r \in urls :
         (/\ r.id = a.target_id
          /\ CallAnswered(c)
          /\ ret'[c].op = "get_url"
          /\ ret'[c].arg = <<a.alias>>)
         => /\ ret'[c].res = "Ok"
            /\ GetUrlRows(r.code) = {ret'[c].val}
    ]_vars

\* C8: insert_alias(a, id2) issued when a is stored as an alias returns Duplicate
\* whatever id2 is, and leaves both tables, and so what get_url(a) returns, unchanged.
C8_AliasDuplicate ==
    [][\A c \in Callers, alias_code \in Codes, code_id \in Ids :
         (/\ AliasConflict(alias_code) # {}
          /\ CallAnswered(c)
          /\ ret'[c].op = "insert_alias"
          /\ ret'[c].arg = <<alias_code, code_id>>)
         => /\ ret'[c].res = "Duplicate"
            /\ aliases' = aliases
            /\ urls' = urls
            /\ GetUrlRows(alias_code)' = GetUrlRows(alias_code)
    ]_vars

\* C8 witness: a second insert_alias of a stored alias, for an id that no record has,
\* was refused with Duplicate, and the alias still has its first target
C8_Witness ==
    /\ ret[Client].op = "insert_alias"
    /\ ret[Client].res = "Duplicate"
    /\ ~ForeignKeyOk(ret[Client].arg[2])
    /\ \E a \in aliases : a.alias = ret[Client].arg[1] /\ ForeignKeyOk(a.target_id)

\* C9: get_url(code) issued when code is neither the code of a row of urls nor a
\* stored alias returns NotFound.
C9_NotFound ==
    [][\A c \in Callers, code \in Codes :
         (/\ CodeConflict(code) = {}
          /\ AliasConflict(code) = {}
          /\ CallAnswered(c)
          /\ ret'[c].op = "get_url"
          /\ ret'[c].arg = <<code>>)
         => ret'[c] = Ret("get_url", <<code>>, "NotFound", << >>)
    ]_vars

\* C9 witness: one caller passed a code to an insert_url that returned the existing
\* record of another code, and another caller's get_url of that code returned NotFound
C9_Witness ==
    \E c, d \in Callers :
        /\ IsExisting(ret[c])
        /\ ret[c].val.urls.code # ret[c].arg[1]
        /\ ret[d] = Ret("get_url", <<ret[c].arg[1]>>, "NotFound", << >>)

\* C10 (as claimed): no code of a row of urls is a stored alias.
C10_NamespacesDisjoint ==
    \A r \in urls, a \in aliases : r.code # a.alias

\* C11: insert_alias(a, id) issued when no row of urls has that id fails and writes
\* nothing, and after every step each stored alias targets the id of a row of urls.
C11_NoDanglingAlias ==
    [][/\ \A c \in Callers, alias_code \in Codes, code_id \in Ids :
            (/\ ~ForeignKeyOk(code_id)
             /\ CallAnswered(c)
             /\ ret'[c].op = "insert_alias"
             /\ ret'[c].arg = <<alias_code, code_id>>)
            => /\ ret'[c].res \in {"QueryError", "Duplicate"}
               /\ aliases' = aliases
       /\ \A a \in aliases' : \E r \in urls' : r.id = a.target_id
    ]_vars

\* C11 witness: an insert_alias of an unused alias for an id that no record has was
\* refused, while an alias of an existing record is stored
C11_Witness ==
    /\ ret[Client].op = "insert_alias"
    /\ ret[Client].res = "QueryError"
    /\ AliasConflict(ret[Client].arg[1]) = {}
    /\ ~ForeignKeyOk(ret[Client].arg[2])
    /\ aliases # {}

\* C12 (as claimed): no step changes or removes a row of urls, and a url that get_url
\* can return for a canonical code is the only url it can return for it after any step.
C12_RecordsStable ==
    [][/\ \A r \in urls : r \in urls'
       /\ \A code \in Codes :
            CodeConflict(code) # {}
            => \A u \in GetUrlRows(code) : GetUrlRows(code)' = {u}
    ]_vars

\* C13: load_bloom_snapshot(name) issued after saves of name returns Some of exactly the
\* payload of the save applied last, and after every step bloom_snapshots holds at most
\* one row per name.
C13_LastSaveReplaces ==
    [][/\ \A c \in Callers, name \in Names :
            (/\ last_saved[name] # << >> /\ CallAnswered(c)
             /\ ret'[c].op = "load_bloom_snapshot" /\ ret'[c].arg = <<name>>)
            => /\ ret'[c].res = "Ok"
               /\ ret'[c].val = [some |-> TRUE, data |-> last_saved[name][1]]
       /\ \A name \in Names :
            Cardinality({s \in bloom_snapshots' : s.name = name}) <= 1
    ]_vars

\* save(name, b1), then save(name, b2) with another payload, then load(name) = Some(b2)
C13_Witness ==
    \E c1, c2, c3 \in Callers, name \in Names, b1, b2 \in Payloads :
        /\ b1 # b2 /\ b1 # << >> /\ last_saved[name] = <<b2>>
        /\ ret[c1].op = "save_bloom_snapshot" /\ ret[c1].arg = <<name, b1>>
        /\ ret[c2].op = "save_bloom_snapshot" /\ ret[c2].arg = <<name, b2>>
        /\ ret[c3].op = "load_bloom_snapshot" /\ ret[c3].arg = <<name>>
        /\ ret[c3].val = [some |-> TRUE, data |-> b2]

\* C14: load_bloom_snapshot(name) for a name never saved returns Ok(None), and a save
\* under one name leaves the rows of every other name as they were.
C14_NeverSavedIsAbsent ==
    [][/\ \A c \in Callers, name \in Names :
            (/\ last_saved[name] = << >> /\ CallAnswered(c)
             /\ ret'[c].op = "load_bloom_snapshot" /\ ret'[c].arg = <<name>>)
            => /\ ret'[c].res = "Ok"
               /\ ret'[c].val.some = FALSE
       /\ \A c \in Callers, name \in Names :
            (CallAnswered(c) /\ ret'[c].op = "save_bloom_snapshot" /\ ret'[c].arg[1] = name)
            => \A other \in Names \ {name} :
                 {s \in bloom_snapshots' : s.name = other}
                   = {s \in bloom_snapshots : s.name = other}
    ]_vars

\* one name was saved and loads as Some, the other was never saved and loaded as None
C14_Witness ==
    \E c1, c2, c3 \in Callers, name \in Names, other \in Names :
        /\ other # name /\ last_saved[name] = << >> /\ last_saved[other] # << >>
        /\ ret[c1].op = "save_bloom_snapshot" /\ ret[c1].arg[1] = other
        /\ ret[c2].op = "load_bloom_snapshot" /\ ret[c2].arg = <<other>>
        /\ ret[c2].val.some = TRUE
        /\ ret[c3].op = "load_bloom_snapshot" /\ ret[c3].arg = <<name>>
        /\ ret[c3].res = "Ok" /\ ret[c3].val.some = FALSE

\* C15: in every interleaving of the callers' saves and loads, a load has returned None
\* or the whole payload of one save that another caller issued under that name, and the
\* payload stored under a name is the payload of the save applied last.
C15_SaveAtomic ==
    /\ \A c \in Callers :
         ret[c].op = "load_bloom_snapshot"
         => /\ ret[c].res = "Ok"
            /\ ret[c].val.some = TRUE
               => \E d \in Callers \ {c} :
                    /\ ret[d].op = "save_bloom_snapshot"
                    /\ ret[d].arg = <<ret[c].arg[1], ret[c].val.data>>
    /\ \A name \in Names :
         {s.data : s \in {x \in bloom_snapshots : x.name = name}}
           = {last_saved[name][i] : i \in DOMAIN last_saved[name]}

\* two callers saved different payloads under one name, a third loaded one of them, and
\* the one applied first is the one loaded: the load ran between the two saves
C15_Witness ==
    \E c1, c2, c3 \in Callers, name \in Names, b1, b2 \in Payloads :
        /\ b1 # b2 /\ last_saved[name] = <<b2>>
        /\ ret[c1].op = "save_bloom_snapshot" /\ ret[c1].arg = <<name, b1>>
        /\ ret[c2].op = "save_bloom_snapshot" /\ ret[c2].arg = <<name, b2>>
        /\ ret[c3].op = "load_bloom_snapshot" /\ ret[c3].arg = <<name>>
        /\ ret[c3].val = [some |-> TRUE, data |-> b1]

\* C16: get_id_by_url(u) returns NotFound when no insert_url has created a record for u,
\* and otherwise Ok with the id and code that the insert_url which created it returned.
C16_LookupByDigest ==
    [][\A c \in Callers, url \in Urls :
         (CallAnswered(c) /\ ret'[c].op = "get_id_by_url" /\ ret'[c].arg = <<url>>)
         => IF \A e \in created_log : e.url # url
            THEN ret'[c].res = "NotFound"
            ELSE /\ ret'[c].res = "Ok"
                 /\ \E e \in created_log :
                      e.url = url /\ ret'[c].val = [id |-> e.id, code |-> e.code]
                 /\ \E d \in Callers :
                      /\ IsCreated(ret[d]) /\ ret[d].arg[2] = url
                      /\ ret[d].val.urls = ret'[c].val
    ]_vars

\* u was created with one code, upserted again with another, and looked up
C16_Witness ==
    \E c1, c2, c3 \in Callers, url \in Urls :
        /\ IsCreated(ret[c1]) /\ ret[c1].arg[2] = url
        /\ IsExisting(ret[c2]) /\ ret[c2].arg[2] = url /\ ret[c2].arg[1] # ret[c1].arg[1]
        /\ ret[c3].op = "get_id_by_url" /\ ret[c3].arg = <<url>> /\ ret[c3].res = "Ok"
        /\ ret[c3].val = ret[c1].val.urls /\ ret[c3].val.code = ret[c1].arg[1]

\* every code stored in urls or aliases
StoredCodes == {r.code : r \in urls} \cup {a.alias : a \in aliases}

\* the windows at offsets offset, offset + limit, ... of one scan, one after another
RECURSIVE PagesFrom(_, _, _)
PagesFrom(rows, offset, limit) ==
    IF offset >= Len(rows) THEN << >>
    ELSE Window(rows, U64(0, offset), U64(0, limit)) \o PagesFrom(rows, offset + limit, limit)

\* C17 (as claimed): when list_short_codes(offset, limit) has returned a window and the
\* data has not changed since, the windows at offsets 0, limit, 2*limit, ... of the scan
\* that window came from list every stored code exactly once and nothing else.
C17_WindowsCoverOnce ==
    (/\ ret[Client].op = "list_short_codes" /\ ret[Client].res = "Ok"
     /\ ret[Client].arg[2].hi = 0 /\ ret[Client].arg[2].lo >= 1)
    => \A order \in ScanOrders :
         LET listed == [i \in DOMAIN order |-> order[i].code]
             pages == PagesFrom(listed, 0, ret[Client].arg[2].lo)
         IN Window(listed, ret[Client].arg[1], ret[Client].arg[2]) = ret[Client].val
            => /\ \A i \in DOMAIN pages : pages[i] \in StoredCodes
               /\ \A code \in StoredCodes :
                    Cardinality({i \in DOMAIN pages : pages[i] = code}) = 1

\* C18: in every interleaving, a caller whose conditional insert inserted nothing has a
\* row for its digest to read, and its fallback read returns Ok with created = false and
\* the id and code of the record created for that url, whatever code the caller supplied.
C18_FallbackFindsWinner ==
    [][\A c \in Callers :
         pc[c] = "fallback"
         => /\ HashConflict(sha256_bytes(req[c].arg[2])) # {}
            /\ CallAnswered(c)
               => /\ IsExisting(ret'[c]) /\ ret'[c].arg = req[c].arg
                  /\ \E e \in created_log :
                       /\ e.url = req[c].arg[2]
                       /\ ret'[c].val.urls = [id |-> e.id, code |-> e.code]
                       /\ ret'[c].val.upsert_result.id = e.id
    ]_vars

\* one caller created the record, a second with another code has read it back, and a
\* third with yet another code is between its conditional insert and its fallback read
C18_Witness ==
    \E c1, c2, c3 \in Callers, url \in Urls :
        /\ IsCreated(ret[c1]) /\ ret[c1].arg[2] = url
        /\ IsExisting(ret[c2]) /\ ret[c2].arg[2] = url
        /\ ret[c2].arg[1] # ret[c1].arg[1] /\ ret[c2].val.urls.code = ret[c1].arg[1]
        /\ pc[c3] = "fallback" /\ req[c3].arg[2] = url
        /\ req[c3].arg[1] \notin {ret[c1].arg[1], ret[c2].arg[1]}

\* C19: when two callers both have the result of an insert_url with the same code and
\* two different urls (returned, or fixed and about to be returned), and no other caller has issued an insert_url, exactly one of the two
\* was told created, the other got Duplicate, and one row of urls carries that code.
C19_SameCodeOneCreated ==
    \A c, d \in Callers :
        (/\ c # d /\ Answered(c) /\ Answered(d)
         /\ IsUpsert(ret[c]) /\ IsUpsert(ret[d])
         /\ ret[c].arg[1] = ret[d].arg[1] /\ ret[c].arg[2] # ret[d].arg[2]
         /\ \A e \in Callers \ {c, d} : pc[e] # "fallback" /\ ~IsUpsert(ret[e]))
        => /\ \/ IsCreated(ret[c]) /\ ret[d].res = "Duplicate"
              \/ IsCreated(ret[d]) /\ ret[c].res = "Duplicate"
           /\ Cardinality(CodeConflict(ret[c].arg[1])) = 1
           /\ Cardinality(urls) = 1

\* the caller that ran second lost: it got Duplicate and its url has no record
C19_Witness ==
    \E c, d \in Callers :
        /\ c # d /\ IsCreated(ret[c]) /\ IsUpsert(ret[d]) /\ ret[d].res = "Duplicate"
        /\ ret[c].arg[1] = ret[d].arg[1] /\ ret[c].arg[2] # ret[d].arg[2]
        /\ HashConflict(sha256_bytes(ret[d].arg[2])) = {}
        /\ CodeConflict(ret[d].arg[1]) = {r \in urls : r.url = ret[c].arg[2]}
        /\ \A e \in Callers \ {c, d} : pc[e] = "done" /\ ~IsUpsert(ret[e])

\* C20: whatever calls were abandoned, after every step each row of urls is a whole
\* record (id, code, url and the digest of that url), no two rows share an id, a code
\* or a digest, no row has changed or gone, and an insert_url that returns gets
\* not-created with the stored record when a row for its url was there (left by a
\* completed or an abandoned call); when none was, it gets Duplicate if a row held its
\* code and created, with exactly its row added, if none did.
C20_AbandonLeavesWholeRecords ==
    [][/\ \A r \in urls' :
            /\ r.id \in Ids /\ r.code \in Codes /\ r.url \in Urls
            /\ r.url_hash = sha256_bytes(r.url)
       /\ \A r1, r2 \in urls' :
            (r1.id = r2.id \/ r1.code = r2.code \/ r1.url_hash = r2.url_hash) => r1 = r2
       /\ \A r \in urls : r \in urls'
       /\ \A c \in Callers, code \in Codes, url \in Urls :
            (CallAnswered(c) /\ ret'[c].op = "insert_url" /\ ret'[c].arg = <<code, url>>)
            => IF HashConflict(sha256_bytes(url)) # {}
               THEN /\ IsExisting(ret'[c]) /\ urls' = urls
                    /\ \E r \in urls :
                         r.url = url /\ ret'[c].val.urls = [id |-> r.id, code |-> r.code]
               ELSE IF CodeConflict(code) # {}
               THEN ret'[c].res = "Duplicate" /\ urls' = urls
               ELSE /\ IsCreated(ret'[c])
                       /\ urls' = urls \cup {[id |-> ret'[c].val.urls.id, code |-> code,
                                               url |-> url, url_hash |-> sha256_bytes(url)]}
    ]_vars

\* a caller abandoned its insert_url after the row was written (no call was told
\* created), a second caller with another code got the stored record back, and a third
\* abandoned its call for the same url with yet another code
C20_Witness ==
    \E c1, c2, c3 \in Callers, r \in urls :
        /\ \A e \in created_log : e.url # r.url
        /\ pc[c1] = "abandoned" /\ req[c1].arg = <<r.code, r.url>>
        /\ IsExisting(ret[c2]) /\ ret[c2].arg[2] = r.url /\ ret[c2].arg[1] # r.code
        /\ ret[c2].val.urls = [id |-> r.id, code |-> r.code]
        /\ pc[c3] = "abandoned" /\ req[c3].arg[2] = r.url
        /\ req[c3].arg[1] \notin {r.code, ret[c2].arg[1]}
====
